---- MODULE Spec2Model ----
(***************************************************************************)
(* A model of excelgenerate.py: generate_excel_report reads a CSV, builds  *)
(* per-year summary tables, writes them to a workbook, styles the header   *)
(* rows, optionally embeds chart images rendered into a temporary          *)
(* directory, saves the workbook and removes the temporary directory.      *)
(*                                                                         *)
(* One call of generate_excel_report is a run of the state machine; pc is  *)
(* the position in the function body.  Library calls that can raise        *)
(* (read_csv, ExcelWriter, load_workbook, style_header_row, the pyplot     *)
(* calls, create_sheet, ExcelImage/add_image, wb.save, rmtree) have one    *)
(* action for the call succeeding and one for it raising.                  *)
(***************************************************************************)
EXTENDS Integers, Sequences, FiniteSets, TLC

---------------------------------------------------------------------------
(* Bounds of the model *)

\* longest dataset drawn for the aggregation specification SpecAgg
MaxRows == 3
\* how many style_header_row calls may raise within one run
MaxStyleFaults == 1

---------------------------------------------------------------------------
(* Values *)

\* a missing numeric cell (NaN / pd.NA); every real value is >= 0
NaN == -1
\* a missing Label cell
NoLabel == "NaN"
\* Python's None for a path argument
None == "None"

UnnamedCol == "Unnamed: 0"
NamedColumns == {"Year", "Wind", "Temperature", "Precipitation_mm", "Label"}
\* the order in which the columns of a file appear in its header line
ColumnOrder ==
    <<UnnamedCol, "Year", "Wind", "Temperature", "Precipitation_mm", "Label">>

InputFile == "data.csv"
AbsentFile == "nofile.csv"
GivenOutput == "report.xlsx"
\* csv_path.with_name("Final_Report.xlsx")
DefaultOutput == "Final_Report.xlsx"
OutPaths == {GivenOutput, DefaultOutput}

\* a check that takes every path for an existing file
ExistsAnyPath(p) == p = p

\* Path.exists() for the input paths of the model
Exists(p) == p = InputFile

PlaceholderMessage == "No 'Year' column available"
WindImage == "wind_trend.png"
PrecipImage == "precip_total.png"
\* row_offset and the spacing of the anchors in the Charts sheet
RowOffset == 2
RowSpacing == 25

---------------------------------------------------------------------------
(* Sequences and numbers *)

Range(s) == {s[i] : i \in 1..Len(s)}

MinOfSet(S) == CHOOSE m \in S : \A x \in S : m <= x
MaxOfSet(S) == CHOOSE m \in S : \A x \in S : m >= x

RECURSIVE SortAsc(_)
SortAsc(S) ==
    IF S = {} THEN <<>>
    ELSE LET m == MinOfSet(S) IN <<m>> \o SortAsc(S \ {m})

RECURSIVE SumSeq(_)
SumSeq(s) == IF s = <<>> THEN 0 ELSE Head(s) + SumSeq(Tail(s))

RECURSIVE GCD(_, _)
GCD(a, b) == IF b = 0 THEN a ELSE GCD(b, a % b)

\* a mean as a fraction in lowest terms; the mean of no values is NaN (0/0)
Fraction(n, d) ==
    IF d = 0 THEN [num |-> 0, den |-> 0]
    ELSE LET g == GCD(n, d) IN [num |-> n \div g, den |-> d \div g]

---------------------------------------------------------------------------
(* The dataframe: cols is the set of column names, rows the records *)

IsMissing(r, c) == IF c = "Label" THEN r[c] = NoLabel ELSE r[c] = NaN

Header(cols) == SelectSeq(ColumnOrder, LAMBDA c : c \in cols)

\* pd.read_csv: an unnamed first column holds the row index of an export;
\* a Year column with a missing value is read as float64, else as int64
ReadCsv(file) ==
    [cols |-> file.cols,
     rows |-> [i \in 1..Len(file.rows) |->
                 [c \in file.cols |->
                    IF c = UnnamedCol THEN i - 1 ELSE file.rows[i][c]]],
     yearDtype |->
        IF "Year" \notin file.cols THEN "absent"
        ELSE IF \E i \in 1..Len(file.rows) : file.rows[i]["Year"] = NaN
             THEN "float64" ELSE "int64"]

\* str.contains('^Unnamed', case=False)
StartsWithUnnamed(c) == c = UnnamedCol

\* df.loc[:, ~df.columns.str.contains('^Unnamed', case=False)]
DropUnnamed(d) ==
    LET keep == {c \in d.cols : ~StartsWithUnnamed(c)} IN
    [cols |-> keep,
     rows |-> [i \in 1..Len(d.rows) |-> [c \in keep |-> d.rows[i][c]]],
     yearDtype |-> d.yearDtype]

\* a float Year column whose values are all whole numbers becomes Int64
\* (every Year value of the model is a whole number)
NormalizeYear(d) ==
    IF "Year" \in d.cols /\ d.yearDtype = "float64"
    THEN [d EXCEPT !.yearDtype = "Int64"]
    ELSE d

\* a group whose missing values are not dropped
GroupValuesKeepingMissing(d, y, c) ==
    LET grp == SelectSeq(d.rows, LAMBDA r : r["Year"] = y)
    IN [i \in 1..Len(grp) |-> grp[i][c]]

\* the values of column c, missing ones dropped, of the rows of year y
GroupValues(d, y, c) ==
    LET grp == SelectSeq(d.rows, LAMBDA r : r["Year"] = y)
        all == [i \in 1..Len(grp) |-> grp[i][c]]
    IN SelectSeq(all, LAMBDA v : v # NaN)

\* groupby("Year") keys: the distinct non-missing years, ascending
GroupKeys(d) ==
    SortAsc({d.rows[i]["Year"] : i \in 1..Len(d.rows)} \ {NaN})

MeanOf(vs) == Fraction(SumSeq(vs), Len(vs))
MaxOf(vs) == IF vs = <<>> THEN NaN ELSE MaxOfSet(Range(vs))
MinOf(vs) == IF vs = <<>> THEN NaN ELSE MinOfSet(Range(vs))

\* grouped[c].agg(Mean="mean", Max="max", Min="min").reset_index()
AggMeanMaxMin(d, c) ==
    LET keys == GroupKeys(d) IN
    [header |-> <<"Year", "Mean", "Max", "Min">>,
     rows |-> [i \in 1..Len(keys) |->
                 LET vs == GroupValues(d, keys[i], c) IN
                 [Year |-> keys[i], Mean |-> MeanOf(vs),
                  Max |-> MaxOf(vs), Min |-> MinOf(vs)]]]

\* grouped["Precipitation_mm"].agg(Total="sum").reset_index()
AggTotal(d, c) ==
    LET keys == GroupKeys(d) IN
    [header |-> <<"Year", "Total">>,
     rows |-> [i \in 1..Len(keys) |->
                 [Year |-> keys[i],
                  Total |-> SumSeq(GroupValues(d, keys[i], c))]]]

\* pd.DataFrame(columns=["Year", "Total"])
EmptyTotals == [header |-> <<"Year", "Total">>, rows |-> <<>>]

\* a placeholder table without its message row
PlaceholderWithoutRow == [header |-> <<"Message">>, rows |-> <<>>]

\* pd.DataFrame({"Message": ["No 'Year' column available"]})
Placeholder ==
    [header |-> <<"Message">>, rows |-> <<[Message |-> PlaceholderMessage]>>]

\* df["Label"].value_counts(): the present labels, most frequent first,
\* equally frequent ones in the order of their first appearance
LabelCounts(d) ==
    LET labs == SelectSeq([i \in 1..Len(d.rows) |-> d.rows[i]["Label"]],
                          LAMBDA v : v # NoLabel)
        Count(l) == Cardinality({i \in 1..Len(labs) : labs[i] = l})
        first == SelectSeq([i \in 1..Len(labs) |->
                              IF \E j \in 1..(i - 1) : labs[j] = labs[i]
                              THEN NoLabel ELSE labs[i]],
                           LAMBDA v : v # NoLabel)
        WithCount(n) == SelectSeq(first, LAMBDA l : Count(l) = n)
        Ordered[n \in 0..Len(labs)] ==
            IF n = 0 THEN <<>> ELSE Ordered[n - 1] \o WithCount(Len(labs) + 1 - n)
        ordered == Ordered[Len(labs)]
    IN [header |-> <<"Label", "Count">>,
        rows |-> [i \in 1..Len(ordered) |->
                    [Label |-> ordered[i], Count |-> Count(ordered[i])]]]

\* df.isna().sum().to_frame(name="MissingCount"), index named Column
MissingSummary(d) ==
    LET hdr == Header(d.cols) IN
    [header |-> <<"Column", "MissingCount">>,
     rows |-> [k \in 1..Len(hdr) |->
                 [Column |-> hdr[k],
                  MissingCount |->
                     Cardinality({i \in 1..Len(d.rows) :
                                    IsMissing(d.rows[i], hdr[k])})]]]

\* df.describe(include="all").transpose(): one row per column; of the
\* statistics of a column the model keeps its count of present values
Describe(d) ==
    LET hdr == Header(d.cols) IN
    [header |-> <<"", "count">>,
     rows |-> [k \in 1..Len(hdr) |->
                 [Column |-> hdr[k],
                  count |->
                     Cardinality({i \in 1..Len(d.rows) :
                                    ~IsMissing(d.rows[i], hdr[k])})]]]

NoTable == [header |-> <<>>, rows |-> <<>>]

\* the tables of lines 116-141; label_counts is <<>> for None
NoTables ==
    [pivot_wind |-> NoTable, pivot_temp |-> NoTable, pivot_precip |-> NoTable,
     label_counts |-> <<>>, missing_summary |-> NoTable, stats |-> NoTable]

BuildTables(d) ==
    [pivot_wind |->
        IF "Year" \in d.cols THEN AggMeanMaxMin(d, "Wind") ELSE Placeholder,
     pivot_temp |->
        IF "Year" \in d.cols THEN AggMeanMaxMin(d, "Temperature")
        ELSE Placeholder,
     pivot_precip |->
        IF "Year" \in d.cols
        THEN (IF "Precipitation_mm" \in d.cols
              THEN AggTotal(d, "Precipitation_mm") ELSE EmptyTotals)
        ELSE Placeholder,
     label_counts |->
        IF "Label" \in d.cols THEN <<LabelCounts(d)>> ELSE <<>>,
     missing_summary |-> MissingSummary(d),
     stats |-> Describe(d)]

---------------------------------------------------------------------------
(* The workbook *)

\* a sheet as to_excel writes it: hdr is the state of its first row
\* ("written": as the writer left it, "partial": style_header_row stopped
\* before every cell had its font and fill, "styled": every cell of the row
\* has the bold font and the solid fill)
Sheet(name, table) ==
    [name |-> name, header |-> table.header, rows |-> table.rows,
     hdr |-> "written", fitted |-> FALSE, images |-> <<>>]

\* a writer that writes the label sheet whether or not there are labels
WriteSheetsAlwaysLabels(d, t) ==
    << Sheet("Raw Data", [header |-> Header(d.cols), rows |-> d.rows]),
       Sheet("Wind Summary", t.pivot_wind),
       Sheet("Temperature Summary", t.pivot_temp),
       Sheet("Precipitation Summary", t.pivot_precip),
       Sheet("Statistics", t.stats),
       Sheet("Missing Values", t.missing_summary),
       Sheet("Label Summary",
             IF t.label_counts # <<>> THEN t.label_counts[1] ELSE NoTable) >>

\* the to_excel calls of the ExcelWriter block, in their order
WriteSheets(d, t) ==
    << Sheet("Raw Data", [header |-> Header(d.cols), rows |-> d.rows]),
       Sheet("Wind Summary", t.pivot_wind),
       Sheet("Temperature Summary", t.pivot_temp),
       Sheet("Precipitation Summary", t.pivot_precip),
       Sheet("Statistics", t.stats),
       Sheet("Missing Values", t.missing_summary) >>
    \o (IF t.label_counts # <<>>
        THEN <<Sheet("Label Summary", t.label_counts[1])>> ELSE <<>>)

SheetNames(sheets) == [i \in 1..Len(sheets) |-> sheets[i].name]

\* a header style that sets the font and leaves the fill
StyleHeaderRowFontOnly(ws) == [ws EXCEPT !.hdr = "partial"]

\* style_header_row: font, fill and alignment of every cell of row 1
StyleHeaderRow(ws) == [ws EXCEPT !.hdr = "styled"]

\* auto_adjust_column_width: every column gets a width
AutoAdjustColumnWidth(ws) == [ws EXCEPT !.fitted = TRUE]

\* a new sheet put in the place of the last one
CreateSheetOverLast(sheets, name) ==
    [sheets EXCEPT ![Len(sheets)] = Sheet(name, NoTable)]

\* wb.create_sheet("Charts"): a new empty sheet after the existing ones
CreateSheet(sheets, name) == Append(sheets, Sheet(name, NoTable))

\* f"A{row_offset + i*25}" for the i-th chart file, i counted from 0
AnchorCell(i) == RowOffset + i * RowSpacing

\* chart_ws.add_image(img, anchor_cell) on the sheet named Charts
AddImage(sheets, file, anchor) ==
    [k \in 1..Len(sheets) |->
        IF sheets[k].name = "Charts"
        THEN [sheets[k] EXCEPT
                !.images = Append(@, [file |-> file, anchor |-> anchor])]
        ELSE sheets[k]]

\* what a path of the output directory holds
Absent == [kind |-> "absent", sheets |-> <<>>]
OldFile == [kind |-> "old", sheets |-> <<>>]
Corrupt == [kind |-> "corrupt", sheets |-> <<>>]
Xlsx(sheets) == [kind |-> "xlsx", sheets |-> sheets]

---------------------------------------------------------------------------
(* State *)

VARIABLES
    csv,              \* the content of the input file data.csv
    HAVE_MPL,         \* whether matplotlib was imported
    use_file_dialog,  \* argument
    embed_charts,     \* argument
    csv_path,         \* argument, then the resolved input path
    excel_path,       \* argument, then the resolved output path
    pc,               \* position in generate_excel_report
    exc,              \* the exception that left the try block or the call
    tmpdir,           \* "none", "exists" or "removed"
    tmpfiles,         \* the image files in the temporary directory
    df,               \* the dataframe
    tables,           \* the summary tables of lines 116-141
    wb,               \* the sheets of the workbook opened by load_workbook
    idx,              \* the position of the loop over sheets or chart files
    chart_files,      \* the list chart_files
    disk,             \* what each output path holds
    printed,          \* the kinds of message printed
    result,           \* the value returned
    styleFailed,      \* the sheets whose style_header_row raised
    chartFault,       \* the step of the chart block that raised, if one did
    cleanupFailed,    \* whether shutil.rmtree raised
    prev              \* the outcome of the call before this one, if any

vars == <<csv, HAVE_MPL, use_file_dialog, embed_charts, csv_path, excel_path,
          pc, exc, tmpdir, tmpfiles, df, tables, wb, idx, chart_files, disk,
          printed, result, styleFailed, chartFault, cleanupFailed, prev>>

NoExc == "none"
NoDf == [cols |-> {}, rows |-> <<>>, yearDtype |-> "absent"]
NoPrev == [called |-> FALSE, charting |-> FALSE, exc |-> NoExc,
           file |-> Absent]

\* the arguments and the environment of a call
inputs == <<csv, HAVE_MPL, use_file_dialog, embed_charts>>
\* everything the steps after the path resolution work on
locals == <<tmpdir, tmpfiles, df, tables, wb, idx, chart_files, printed,
            result, styleFailed, chartFault, cleanupFailed>>

\* an exception raised before the try block leaves the call at once
RaiseOutside(e) ==
    /\ exc' = e
    /\ pc' = "raised"

\* a try block without its finally clause
RaiseSkippingFinally(e) ==
    /\ exc' = e
    /\ pc' = "raised"

\* an exception raised inside the try block runs the finally clause
RaiseInTry(e) ==
    /\ exc' = e
    /\ pc' = "finally"

---------------------------------------------------------------------------
(* Lines 54-92: the tkinter import and the resolution of the two paths *)

\* use_file_dialog is false: neither the import nor the open dialog runs
SkipDialogs ==
    /\ pc = "start"
    /\ ~use_file_dialog
    /\ pc' = "check_csv"
    /\ UNCHANGED <<inputs, csv_path, excel_path, exc, locals, disk, prev>>

\* from tkinter import Tk, filedialog
ImportTkinter ==
    /\ pc = "start"
    /\ use_file_dialog
    /\ pc' = "ask_csv"
    /\ UNCHANGED <<inputs, csv_path, excel_path, exc, locals, disk, prev>>

\* the import raises: RuntimeError("Tkinter unavailable. ...")
ImportTkinterFails ==
    /\ pc = "start"
    /\ use_file_dialog
    /\ RaiseOutside("RuntimeError: Tkinter unavailable")
    /\ UNCHANGED <<inputs, csv_path, excel_path, locals, disk, prev>>

\* csv_path was given: no open dialog
KeepCsvPath ==
    /\ pc = "ask_csv"
    /\ csv_path # None
    /\ pc' = "check_csv"
    /\ UNCHANGED <<inputs, csv_path, excel_path, exc, locals, disk, prev>>

\* filedialog.askopenfilename returns the path the user picked
SelectCsv ==
    /\ pc = "ask_csv"
    /\ csv_path = None
    /\ \E p \in {InputFile, AbsentFile} : csv_path' = p
    /\ pc' = "check_csv"
    /\ UNCHANGED <<inputs, excel_path, exc, locals, disk, prev>>

\* the open dialog is cancelled: FileNotFoundError("No CSV selected.")
CancelCsv ==
    /\ pc = "ask_csv"
    /\ csv_path = None
    /\ RaiseOutside("FileNotFoundError: No CSV selected")
    /\ UNCHANGED <<inputs, csv_path, excel_path, locals, disk, prev>>

\* csv_path is None: ValueError("csv_path must be provided ...")
CsvPathMissing ==
    /\ pc = "check_csv"
    /\ csv_path = None
    /\ RaiseOutside("ValueError: csv_path must be provided")
    /\ UNCHANGED <<inputs, csv_path, excel_path, locals, disk, prev>>

\* not csv_path.exists(): FileNotFoundError("CSV not found: ...")
CsvNotFound ==
    /\ pc = "check_csv"
    /\ csv_path # None
    /\ ~Exists(csv_path)
    /\ RaiseOutside("FileNotFoundError: CSV not found")
    /\ UNCHANGED <<inputs, csv_path, excel_path, locals, disk, prev>>

CsvFound ==
    /\ pc = "check_csv"
    /\ csv_path # None
    /\ Exists(csv_path)
    /\ pc' = "resolve_excel"
    /\ UNCHANGED <<inputs, csv_path, excel_path, exc, locals, disk, prev>>

\* filedialog.asksaveasfilename returns the path the user picked
SelectSave ==
    /\ pc = "resolve_excel"
    /\ use_file_dialog /\ excel_path = None
    /\ \E p \in OutPaths : excel_path' = p
    /\ pc' = "mkdtemp"
    /\ UNCHANGED <<inputs, csv_path, exc, locals, disk, prev>>

\* the save dialog is cancelled: FileNotFoundError("No save location ...")
CancelSave ==
    /\ pc = "resolve_excel"
    /\ use_file_dialog /\ excel_path = None
    /\ RaiseOutside("FileNotFoundError: No save location selected")
    /\ UNCHANGED <<inputs, csv_path, excel_path, locals, disk, prev>>

\* excel_path is None: Final_Report.xlsx in the folder of the CSV
DefaultExcelPath ==
    /\ pc = "resolve_excel"
    /\ ~use_file_dialog /\ excel_path = None
    /\ excel_path' = DefaultOutput
    /\ pc' = "mkdtemp"
    /\ UNCHANGED <<inputs, csv_path, exc, locals, disk, prev>>

KeepExcelPath ==
    /\ pc = "resolve_excel"
    /\ excel_path # None
    /\ pc' = "mkdtemp"
    /\ UNCHANGED <<inputs, csv_path, excel_path, exc, locals, disk, prev>>

---------------------------------------------------------------------------
(* Lines 94-155: temporary directory, load, aggregate, write, re-open *)

\* tmpdir = Path(tempfile.mkdtemp(prefix="excel_report_tmp_"))
Mkdtemp ==
    /\ pc = "mkdtemp"
    /\ tmpdir' = "exists"
    /\ pc' = "load"
    /\ UNCHANGED <<inputs, csv_path, excel_path, exc, tmpfiles, df, tables,
                   wb, idx, chart_files, disk, printed, result, styleFailed,
                   chartFault, cleanupFailed, prev>>

\* read_csv, the removal of the unnamed columns, the Year conversion
LoadCsv ==
    /\ pc = "load"
    /\ df' = NormalizeYear(DropUnnamed(ReadCsv(csv)))
    /\ pc' = "aggregate"
    /\ UNCHANGED <<inputs, csv_path, excel_path, exc, tmpdir, tmpfiles,
                   tables, wb, idx, chart_files, disk, printed, result,
                   styleFailed, chartFault, cleanupFailed, prev>>

\* pd.read_csv raises (unreadable or malformed file)
LoadCsvFails ==
    /\ pc = "load"
    /\ RaiseInTry("read_csv error")
    /\ UNCHANGED <<inputs, csv_path, excel_path, locals, disk, prev>>

\* grouped["Wind"] or grouped["Temperature"] of a dataframe without
\* that column raises KeyError
MissingMetric(d) ==
    "Year" \in d.cols /\ ~({"Wind", "Temperature"} \subseteq d.cols)

\* describe of a dataframe without columns raises ValueError
\* ("Cannot describe a DataFrame without columns")
NothingToDescribe(d) == d.cols = {}

Aggregate ==
    /\ pc = "aggregate"
    /\ ~MissingMetric(df)
    /\ ~NothingToDescribe(df)
    /\ tables' = BuildTables(df)
    /\ pc' = "write"
    /\ UNCHANGED <<inputs, csv_path, excel_path, exc, tmpdir, tmpfiles, df,
                   wb, idx, chart_files, disk, printed, result, styleFailed,
                   chartFault, cleanupFailed, prev>>

AggregateKeyError ==
    /\ pc = "aggregate"
    /\ MissingMetric(df)
    /\ RaiseInTry("KeyError: Column not found")
    /\ UNCHANGED <<inputs, csv_path, excel_path, locals, disk, prev>>

DescribeFails ==
    /\ pc = "aggregate"
    /\ ~MissingMetric(df)
    /\ NothingToDescribe(df)
    /\ RaiseInTry("ValueError: Cannot describe a DataFrame without columns")
    /\ UNCHANGED <<inputs, csv_path, excel_path, locals, disk, prev>>

\* the ExcelWriter block: on leaving it the file holds the written sheets
WriteExcel ==
    /\ pc = "write"
    /\ disk' = [disk EXCEPT ![excel_path] = Xlsx(WriteSheets(df, tables))]
    /\ pc' = "reopen"
    /\ UNCHANGED <<inputs, csv_path, excel_path, exc, locals, prev>>

\* the ExcelWriter block raises: before the file was opened for writing
\* (it keeps what it held) or after (it holds no valid workbook)
WriteExcelFails ==
    /\ pc = "write"
    /\ \E after \in {disk[excel_path], Corrupt} :
          disk' = [disk EXCEPT ![excel_path] = after]
    /\ RaiseInTry("ExcelWriter error")
    /\ UNCHANGED <<inputs, csv_path, excel_path, locals, prev>>

\* wb = load_workbook(excel_path)
LoadWorkbook ==
    /\ pc = "reopen"
    /\ wb' = disk[excel_path].sheets
    /\ idx' = 1
    /\ pc' = "style"
    /\ UNCHANGED <<inputs, csv_path, excel_path, exc, tmpdir, tmpfiles, df,
                   tables, chart_files, disk, printed, result, styleFailed,
                   chartFault, cleanupFailed, prev>>

LoadWorkbookFails ==
    /\ pc = "reopen"
    /\ RaiseInTry("load_workbook error")
    /\ UNCHANGED <<inputs, csv_path, excel_path, locals, disk, prev>>

---------------------------------------------------------------------------
(* Lines 157-167: the styling loop over wb.sheetnames *)

\* one turn of the loop: style_header_row and auto_adjust_column_width
StyleSheet ==
    /\ pc = "style"
    /\ idx <= Len(wb)
    /\ wb' = [wb EXCEPT ![idx] = AutoAdjustColumnWidth(StyleHeaderRow(@))]
    /\ idx' = idx + 1
    /\ pc' = IF idx = Len(wb) THEN "charts" ELSE "style"
    /\ UNCHANGED <<inputs, csv_path, excel_path, exc, tmpdir, tmpfiles, df,
                   tables, chart_files, disk, printed, result, styleFailed,
                   chartFault, cleanupFailed, prev>>

\* style_header_row raises and the except clause passes: the row is left
\* with a cell that lacks the font or the fill ("partial"), or, when only
\* the alignment of its last cell was not set, with all of them ("styled")
StyleSheetFails ==
    /\ pc = "style"
    /\ idx <= Len(wb)
    /\ Cardinality(styleFailed) < MaxStyleFaults
    /\ \E left \in {"partial", "styled"} :
          wb' = [wb EXCEPT
                   ![idx] = AutoAdjustColumnWidth([@ EXCEPT !.hdr = left])]
    /\ styleFailed' = styleFailed \cup {wb[idx].name}
    /\ idx' = idx + 1
    /\ pc' = IF idx = Len(wb) THEN "charts" ELSE "style"
    /\ UNCHANGED <<inputs, csv_path, excel_path, exc, tmpdir, tmpfiles, df,
                   tables, chart_files, disk, printed, result, chartFault,
                   cleanupFailed, prev>>

---------------------------------------------------------------------------
(* Lines 169-217: the chart block *)

\* embed_charts and HAVE_MPL and "Year" in df.columns
ChartsEnabled == embed_charts /\ HAVE_MPL /\ "Year" \in df.cols

\* not wind_mean.empty, not precip_total.empty: the groupby has a group
HasGroups(d) == GroupKeys(d) # <<>>

SkipCharts ==
    /\ pc = "charts"
    /\ ~ChartsEnabled
    /\ pc' = "save"
    /\ UNCHANGED <<inputs, csv_path, excel_path, exc, locals, disk, prev>>

EnterCharts ==
    /\ pc = "charts"
    /\ ChartsEnabled
    /\ pc' = "wind"
    /\ UNCHANGED <<inputs, csv_path, excel_path, exc, locals, disk, prev>>

\* a chart block whose except clause raises again
ChartFailureRaised(step) ==
    /\ chartFault' = step
    /\ printed' = printed \cup {"warning"}
    /\ exc' = "chart error"
    /\ pc' = "finally"

\* a chart block whose except clause prints nothing
ChartFailureSilent(step) ==
    /\ chartFault' = step
    /\ printed' = printed
    /\ exc' = exc
    /\ pc' = "save"

\* the except clause of the chart block: print the warning and go on
ChartFailure(step) ==
    /\ chartFault' = step
    /\ printed' = printed \cup {"warning"}
    /\ exc' = exc
    /\ pc' = "save"

\* the wind chart is drawn and saved into the temporary directory
RenderWind ==
    /\ pc = "wind"
    /\ HasGroups(df)
    /\ tmpfiles' = tmpfiles \cup {WindImage}
    /\ chart_files' = Append(chart_files, WindImage)
    /\ pc' = "precip"
    /\ UNCHANGED <<inputs, csv_path, excel_path, exc, tmpdir, df, tables, wb,
                   idx, disk, printed, result, styleFailed, chartFault,
                   cleanupFailed, prev>>

NoWindData ==
    /\ pc = "wind"
    /\ ~HasGroups(df)
    /\ pc' = "precip"
    /\ UNCHANGED <<inputs, csv_path, excel_path, exc, locals, disk, prev>>

\* a pyplot call of the wind chart raises, before or after savefig wrote
RenderWindFails ==
    /\ pc = "wind"
    /\ HasGroups(df)
    /\ \E files \in {tmpfiles, tmpfiles \cup {WindImage}} : tmpfiles' = files
    /\ ChartFailure("wind chart")
    /\ UNCHANGED <<inputs, csv_path, excel_path, tmpdir, df, tables, wb,
                   idx, chart_files, disk, result, styleFailed, cleanupFailed,
                   prev>>

RenderPrecip ==
    /\ pc = "precip"
    /\ "Precipitation_mm" \in df.cols /\ HasGroups(df)
    /\ tmpfiles' = tmpfiles \cup {PrecipImage}
    /\ chart_files' = Append(chart_files, PrecipImage)
    /\ pc' = "sheet"
    /\ UNCHANGED <<inputs, csv_path, excel_path, exc, tmpdir, df, tables, wb,
                   idx, disk, printed, result, styleFailed, chartFault,
                   cleanupFailed, prev>>

SkipPrecip ==
    /\ pc = "precip"
    /\ ~("Precipitation_mm" \in df.cols /\ HasGroups(df))
    /\ pc' = "sheet"
    /\ UNCHANGED <<inputs, csv_path, excel_path, exc, locals, disk, prev>>

RenderPrecipFails ==
    /\ pc = "precip"
    /\ "Precipitation_mm" \in df.cols /\ HasGroups(df)
    /\ \E files \in {tmpfiles, tmpfiles \cup {PrecipImage}} : tmpfiles' = files
    /\ ChartFailure("precipitation chart")
    /\ UNCHANGED <<inputs, csv_path, excel_path, tmpdir, df, tables, wb,
                   idx, chart_files, disk, result, styleFailed, cleanupFailed,
                   prev>>

\* if chart_files: is false
NoChartFiles ==
    /\ pc = "sheet"
    /\ chart_files = <<>>
    /\ pc' = "save"
    /\ UNCHANGED <<inputs, csv_path, excel_path, exc, locals, disk, prev>>

\* the Charts sheet is taken from the workbook or created
CreateChartsSheet ==
    /\ pc = "sheet"
    /\ chart_files # <<>>
    /\ wb' = IF "Charts" \in Range(SheetNames(wb)) THEN wb
             ELSE CreateSheet(wb, "Charts")
    /\ idx' = 1
    /\ pc' = "anchor"
    /\ UNCHANGED <<inputs, csv_path, excel_path, exc, tmpdir, tmpfiles, df,
                   tables, chart_files, disk, printed, result, styleFailed,
                   chartFault, cleanupFailed, prev>>

CreateChartsSheetFails ==
    /\ pc = "sheet"
    /\ chart_files # <<>>
    /\ ChartFailure("Charts sheet")
    /\ UNCHANGED <<inputs, csv_path, excel_path, tmpdir, tmpfiles, df,
                   tables, wb, idx, chart_files, disk, result, styleFailed,
                   cleanupFailed, prev>>

\* a loop that deletes each image file once it is anchored
AnchorImageThenUnlink ==
    /\ pc = "anchor"
    /\ idx <= Len(chart_files)
    /\ wb' = AddImage(wb, chart_files[idx], AnchorCell(idx - 1))
    /\ tmpfiles' = tmpfiles \ {chart_files[idx]}
    /\ idx' = idx + 1
    /\ pc' = IF idx = Len(chart_files) THEN "save" ELSE "anchor"
    /\ UNCHANGED <<inputs, csv_path, excel_path, exc, tmpdir, df,
                   tables, chart_files, disk, printed, result, styleFailed,
                   chartFault, cleanupFailed, prev>>

\* one turn of the loop over chart_files: ExcelImage and add_image
AnchorImage ==
    /\ pc = "anchor"
    /\ idx <= Len(chart_files)
    /\ wb' = AddImage(wb, chart_files[idx], AnchorCell(idx - 1))
    /\ idx' = idx + 1
    /\ pc' = IF idx = Len(chart_files) THEN "save" ELSE "anchor"
    /\ UNCHANGED <<inputs, csv_path, excel_path, exc, tmpdir, tmpfiles, df,
                   tables, chart_files, disk, printed, result, styleFailed,
                   chartFault, cleanupFailed, prev>>

AnchorImageFails ==
    /\ pc = "anchor"
    /\ idx <= Len(chart_files)
    /\ ChartFailure("anchor")
    /\ UNCHANGED <<inputs, csv_path, excel_path, tmpdir, tmpfiles, df,
                   tables, wb, idx, chart_files, disk, result, styleFailed,
                   cleanupFailed, prev>>

---------------------------------------------------------------------------
(* Lines 219-232: save, return, cleanup *)

\* wb.save reads every embedded image from its file
ImagesReadable(sheets) ==
    \A k \in 1..Len(sheets) : \A j \in 1..Len(sheets[k].images) :
        tmpdir = "exists" /\ sheets[k].images[j].file \in tmpfiles

\* wb.save(excel_path), the print and the return statement
SaveWorkbook ==
    /\ pc = "save"
    /\ IF ImagesReadable(wb)
       THEN /\ disk' = [disk EXCEPT ![excel_path] = Xlsx(wb)]
            /\ printed' = printed \cup {"generated"}
            /\ result' = excel_path
            /\ exc' = exc
       ELSE /\ disk' = [disk EXCEPT ![excel_path] = Corrupt]
            /\ exc' = "save error"
            /\ UNCHANGED <<printed, result>>
    /\ pc' = "finally"
    /\ UNCHANGED <<inputs, csv_path, excel_path, tmpdir, tmpfiles, df, tables,
                   wb, idx, chart_files, styleFailed, chartFault,
                   cleanupFailed, prev>>

\* wb.save raises: before the file was opened for writing or after
SaveWorkbookFails ==
    /\ pc = "save"
    /\ \E after \in {disk[excel_path], Corrupt} :
          disk' = [disk EXCEPT ![excel_path] = after]
    /\ RaiseInTry("save error")
    /\ UNCHANGED <<inputs, csv_path, excel_path, locals, prev>>

\* how the call ends once the finally clause has run
Leave == IF exc = NoExc THEN "returned" ELSE "raised"

\* finally: shutil.rmtree(tmpdir)
RemoveTmpdir ==
    /\ pc = "finally"
    /\ tmpdir' = "removed"
    /\ tmpfiles' = {}
    /\ pc' = Leave
    /\ UNCHANGED <<inputs, csv_path, excel_path, exc, df, tables, wb, idx,
                   chart_files, disk, printed, result, styleFailed,
                   chartFault, cleanupFailed, prev>>

\* shutil.rmtree raises and the except clause passes: the directory stays,
\* with the files that were not yet removed
RemoveTmpdirFails ==
    /\ pc = "finally"
    /\ tmpfiles' \in SUBSET tmpfiles
    /\ cleanupFailed' = TRUE
    /\ pc' = Leave
    /\ UNCHANGED <<inputs, csv_path, excel_path, exc, tmpdir, df, tables, wb,
                   idx, chart_files, disk, printed, result, styleFailed,
                   chartFault, prev>>

---------------------------------------------------------------------------
(* A second call on the same paths, as the two blocks under               *)
(* if __name__ == "__main__" make it; the charting arguments are chosen   *)
(* anew, and so is HAVE_MPL (the program is started again)                *)

CallAgain ==
    /\ pc \in {"returned", "raised"}
    /\ ~prev.called
    /\ prev' = [called |-> TRUE, charting |-> embed_charts /\ HAVE_MPL,
                exc |-> exc,
                file |-> IF pc = "returned" THEN disk[excel_path] ELSE Absent]
    /\ embed_charts' \in BOOLEAN
    /\ HAVE_MPL' \in BOOLEAN
    /\ pc' = "start"
    /\ exc' = NoExc
    /\ tmpdir' = "none"
    /\ tmpfiles' = {}
    /\ df' = NoDf
    /\ tables' = NoTables
    /\ wb' = <<>>
    /\ idx' = 1
    /\ chart_files' = <<>>
    /\ printed' = {}
    /\ result' = None
    /\ styleFailed' = {}
    /\ chartFault' = "none"
    /\ cleanupFailed' = FALSE
    /\ UNCHANGED <<csv, use_file_dialog, csv_path, excel_path, disk>>

---------------------------------------------------------------------------
(* Inputs *)

\* the rows of the sample datasets
Row1 == [Year |-> 2020, Wind |-> 5, Temperature |-> 20,
         Precipitation_mm |-> 1, Label |-> "a"]
Row2 == [Year |-> 2020, Wind |-> 7, Temperature |-> 22,
         Precipitation_mm |-> NaN, Label |-> "b"]
Row3 == [Year |-> 2021, Wind |-> 10, Temperature |-> 18,
         Precipitation_mm |-> 3, Label |-> "a"]
RowNoYear == [Year |-> NaN, Wind |-> 7, Temperature |-> NaN,
              Precipitation_mm |-> 2, Label |-> NoLabel]

SampleRows == {<<RowNoYear>>, <<Row1, Row2, Row3>>}

\* the header lines drawn: every choice of the named columns, and an
\* exported index column before none, one and all of them
ColumnSets ==
    (SUBSET NamedColumns \ {{}})
    \cup {{UnnamedCol}, {UnnamedCol, "Label"}, {UnnamedCol} \cup NamedColumns}

\* the state of a call before its first statement
Fresh ==
    /\ pc = "start"
    /\ exc = NoExc
    /\ tmpdir = "none"
    /\ tmpfiles = {}
    /\ df = NoDf
    /\ tables = NoTables
    /\ wb = <<>>
    /\ idx = 1
    /\ chart_files = <<>>
    /\ printed = {}
    /\ result = None
    /\ styleFailed = {}
    /\ chartFault = "none"
    /\ cleanupFailed = FALSE
    /\ prev = NoPrev

Init ==
    /\ csv \in [cols : ColumnSets, rows : SampleRows]
    /\ HAVE_MPL \in BOOLEAN
    /\ use_file_dialog \in BOOLEAN
    /\ embed_charts \in BOOLEAN
    /\ csv_path \in {None, InputFile, AbsentFile}
    /\ excel_path \in {None, GivenOutput}
    /\ \E before \in {Absent, OldFile} : disk = [p \in OutPaths |-> before]
    /\ Fresh

Resolve ==
    \/ SkipDialogs \/ ImportTkinter \/ ImportTkinterFails
    \/ KeepCsvPath \/ SelectCsv \/ CancelCsv
    \/ CsvPathMissing \/ CsvNotFound \/ CsvFound
    \/ SelectSave \/ CancelSave \/ DefaultExcelPath \/ KeepExcelPath

Next ==
    \/ Resolve
    \/ Mkdtemp \/ LoadCsv \/ LoadCsvFails
    \/ Aggregate \/ AggregateKeyError \/ DescribeFails
    \/ WriteExcel \/ WriteExcelFails \/ LoadWorkbook \/ LoadWorkbookFails
    \/ StyleSheet \/ StyleSheetFails
    \/ SkipCharts \/ EnterCharts
    \/ RenderWind \/ NoWindData \/ RenderWindFails
    \/ RenderPrecip \/ SkipPrecip \/ RenderPrecipFails
    \/ NoChartFiles \/ CreateChartsSheet \/ CreateChartsSheetFails
    \/ AnchorImage \/ AnchorImageFails
    \/ SaveWorkbook \/ SaveWorkbookFails
    \/ RemoveTmpdir \/ RemoveTmpdirFails

Spec == Init /\ [][Next]_vars

\* the datasets of the aggregation specification: up to MaxRows rows
AggRow ==
    [Year : {2020, 2021, NaN}, Wind : {5, 7, 10, NaN}, Temperature : {20},
     Precipitation_mm : {1}, Label : {"a"}]
AggRows == UNION {[1..n -> AggRow] : n \in 0..MaxRows}
AggColumnSets ==
    {{"Year", "Wind"} \cup extra : extra \in SUBSET {"Temperature", "Label"}}

\* a call with both paths given, no dialogs and no charts
InitAgg ==
    /\ csv \in [cols : AggColumnSets, rows : AggRows]
    /\ HAVE_MPL = TRUE
    /\ use_file_dialog = FALSE
    /\ embed_charts = FALSE
    /\ csv_path = InputFile
    /\ excel_path = GivenOutput
    /\ disk = [p \in OutPaths |-> Absent]
    /\ Fresh

\* the steps of such a call when no library call fails
NextAgg ==
    \/ SkipDialogs \/ CsvFound \/ KeepExcelPath
    \/ Mkdtemp \/ LoadCsv \/ Aggregate \/ AggregateKeyError
    \/ WriteExcel \/ LoadWorkbook \/ StyleSheet \/ SkipCharts
    \/ SaveWorkbook \/ RemoveTmpdir

SpecAgg == InitAgg /\ [][NextAgg]_vars

\* two calls on the same input, one after the other, the charting
\* arguments of each chosen freely
InitPair ==
    /\ csv \in [cols : ColumnSets, rows : SampleRows]
    /\ HAVE_MPL \in BOOLEAN
    /\ use_file_dialog = FALSE
    /\ embed_charts \in BOOLEAN
    /\ csv_path = InputFile
    /\ excel_path = GivenOutput
    /\ disk = [p \in OutPaths |-> Absent]
    /\ Fresh

NextPair ==
    \/ SkipDialogs \/ CsvFound \/ KeepExcelPath
    \/ Mkdtemp \/ LoadCsv
    \/ Aggregate \/ AggregateKeyError \/ DescribeFails
    \/ WriteExcel \/ LoadWorkbook \/ StyleSheet
    \/ SkipCharts \/ EnterCharts
    \/ RenderWind \/ NoWindData \/ RenderPrecip \/ SkipPrecip
    \/ NoChartFiles \/ CreateChartsSheet \/ AnchorImage
    \/ SaveWorkbook \/ RemoveTmpdir
    \/ CallAgain

SpecPair == InitPair /\ [][NextPair]_vars

---------------------------------------------------------------------------
(* Properties *)

Ended == pc \in {"returned", "raised"}
Saved == disk[excel_path]
SavedNames == SheetNames(Saved.sheets)
\* no output path holds anything but what it held before the call
NothingWritten ==
    \/ disk = [p \in OutPaths |-> Absent]
    \/ disk = [p \in OutPaths |-> OldFile]

\* C1: a call without dialogs whose input path names no file stops at the
\* existence check with FileNotFoundError("CSV not found"), and up to then
\* no output path was written and no temporary directory was made: a report
\* that existed is still the old one, one that did not still does not exist
C1_MissingInputAborts ==
    (~use_file_dialog /\ csv_path = AbsentFile) =>
        /\ pc \in {"start", "check_csv", "raised"}
        /\ pc = "raised" => exc = "FileNotFoundError: CSV not found"
        /\ NothingWritten
        /\ tmpdir = "none"

C1_Witness ==
    /\ ~use_file_dialog /\ csv_path = AbsentFile
    /\ pc = "raised"
    /\ exc = "FileNotFoundError: CSV not found"
    /\ disk[GivenOutput] = OldFile

\* C2 as claimed: whenever a call that made the temporary directory has
\* ended, the directory is gone
C2_TmpdirGoneOnEveryExit ==
    (Ended /\ tmpdir # "none") => tmpdir = "removed"

\* C2 amended: every call that made the temporary directory runs rmtree on
\* it before it ends, on the return and on every exception; the directory
\* is gone at the end unless that rmtree itself raised
C2_TmpdirRemovalAttempted ==
    (Ended /\ tmpdir # "none") => (tmpdir = "removed" \/ cleanupFailed)

C2_Witness ==
    /\ pc = "raised"
    /\ exc = "save error"
    /\ styleFailed # {}
    /\ tmpdir = "removed"

\* the three failures of the path resolution
ResolutionErrors ==
    {"RuntimeError: Tkinter unavailable",
     "FileNotFoundError: No CSV selected",
     "ValueError: csv_path must be provided",
     "FileNotFoundError: CSV not found",
     "FileNotFoundError: No save location selected"}
\* the failures of the try block that no except clause catches
UncaughtErrors ==
    {"read_csv error", "KeyError: Column not found",
     "ValueError: Cannot describe a DataFrame without columns",
     "ExcelWriter error", "load_workbook error", "save error"}

\* C3 as claimed: a call is only ever aborted by a missing input, a
\* cancelled output selection or the missing GUI toolkit
C3_OnlyResolutionAborts ==
    pc = "raised" => exc \in ResolutionErrors

\* C3 amended: a failure of styling, of the chart block or of the cleanup
\* never aborts the call: a call is aborted only by a failure of the path
\* resolution or of loading, aggregating, writing, re-opening or saving,
\* and a call that met none of these returns the output path with the
\* workbook saved there, whatever failed in styling, charting or cleanup
C3_StyleChartCleanupContained ==
    /\ pc = "raised" => exc \in ResolutionErrors \cup UncaughtErrors
    /\ exc \notin {"chart error", "style error", "rmtree error"}
    /\ pc = "returned" =>
          /\ exc = NoExc
          /\ result = excel_path
          /\ Saved = Xlsx(wb)
          /\ Len(wb) >= 6

C3_Witness ==
    /\ pc = "returned"
    /\ styleFailed # {}
    /\ chartFault # "none"
    /\ cleanupFailed
    /\ Saved.kind = "xlsx"

\* the images embedded in the sheets of a workbook
ImageCount(sheets) ==
    SumSeq([k \in 1..Len(sheets) |-> Len(sheets[k].images)])

DataSheetNames ==
    <<"Raw Data", "Wind Summary", "Temperature Summary",
      "Precipitation Summary", "Statistics", "Missing Values">>
AllSevenNames == Append(DataSheetNames, "Label Summary")
HasAllFiveColumns == NamedColumns \subseteq csv.cols

\* C5 as claimed: the workbook saved for an input with the five columns
\* has the seven sheets, in their order, and no other; and for any input
\* the saved workbook has a Label Summary sheet exactly if the input has a
\* Label column
C5_ExactlySevenSheets ==
    pc = "returned" =>
        /\ HasAllFiveColumns => SavedNames = AllSevenNames
        /\ "Label Summary" \in Range(SavedNames) <=> "Label" \in csv.cols

\* C5 amended: the workbook saved for an input with the five columns has
\* the seven sheets, in their order, followed by a Charts sheet exactly if
\* the chart block rendered a chart and made the sheet (embed_charts,
\* matplotlib present, a row with a year, no failure before the sheet was
\* made); and for any input the saved workbook has a Label Summary sheet
\* exactly if the input has a Label column
C5_SevenSheetsThenCharts ==
    pc = "returned" =>
        /\ HasAllFiveColumns =>
              SavedNames =
                 IF /\ embed_charts /\ HAVE_MPL
                    /\ \E i \in 1..Len(csv.rows) : csv.rows[i]["Year"] # NaN
                    /\ chartFault \in {"none", "anchor"}
                 THEN Append(AllSevenNames, "Charts")
                 ELSE AllSevenNames
        /\ "Label Summary" \in Range(SavedNames) <=> "Label" \in csv.cols

C5_Witness ==
    /\ pc = "returned"
    /\ HasAllFiveColumns
    /\ SavedNames = Append(AllSevenNames, "Charts")
    /\ ImageCount(Saved.sheets) = 2

\* the three summary sheets of a saved workbook hold the placeholder
PlaceholdersSaved ==
    \A k \in 2..4 :
        /\ Saved.sheets[k].name = DataSheetNames[k]
        /\ Saved.sheets[k].header = <<"Message">>
        /\ Saved.sheets[k].rows = <<[Message |-> PlaceholderMessage]>>

\* the chart block never ran: nothing rendered, listed, embedded, warned
NoChartRendering ==
    /\ pc \notin {"wind", "precip", "sheet", "anchor"}
    /\ tmpfiles = {}
    /\ chart_files = <<>>
    /\ chartFault = "none"
    /\ "Charts" \notin Range(SheetNames(wb))

DataErrors ==
    {"KeyError: Column not found",
     "ValueError: Cannot describe a DataFrame without columns"}

\* C6 as claimed: for an input without a Year column, whatever its other
\* columns, no step fails on the data, a call that returns has saved the
\* three summary sheets with the single placeholder row, and the chart
\* block does not run
C6_NoYearNeverFails ==
    "Year" \notin csv.cols =>
        /\ exc \notin DataErrors
        /\ pc = "returned" => PlaceholdersSaved
        /\ NoChartRendering

\* C6 amended: the same for an input without a Year column that has at
\* least one column left once the unnamed columns are dropped (with none
\* left, describe raises ValueError and the call is aborted)
C6_NoYearWithAColumn ==
    ("Year" \notin csv.cols /\ csv.cols \ {UnnamedCol} # {}) =>
        /\ exc \notin DataErrors
        /\ pc = "returned" => PlaceholdersSaved
        /\ NoChartRendering

C6_Witness ==
    /\ "Year" \notin csv.cols
    /\ csv.cols = {UnnamedCol, "Label"}
    /\ embed_charts /\ HAVE_MPL
    /\ pc = "returned"
    /\ PlaceholdersSaved

\* every cell of the first row of the sheet has the bold font and the fill
\* (a sheet without cells, as the Charts sheet is, has no header cell)
HeaderCellsStyled(ws) == ws.header # <<>> => ws.hdr = "styled"

\* C9 as claimed: after any call that returns, every header cell of every
\* sheet of the saved workbook is bold and filled, also when the styling
\* of a sheet failed and also when a Charts sheet was added
C9_EveryHeaderStyled ==
    pc = "returned" =>
        \A k \in 1..Len(Saved.sheets) : HeaderCellsStyled(Saved.sheets[k])

\* C9 amended: after any call that returns, every header cell of every
\* sheet of the saved workbook whose style_header_row call did not raise
\* is bold and filled, also when a Charts sheet (which has no cells) was
\* added; a sheet whose styling failed may be left with unstyled cells
C9_HeaderStyledUnlessStylingFailed ==
    pc = "returned" =>
        \A k \in 1..Len(Saved.sheets) :
            Saved.sheets[k].name \notin styleFailed =>
                HeaderCellsStyled(Saved.sheets[k])

C9_Witness ==
    /\ pc = "returned"
    /\ styleFailed = {"Statistics"}
    /\ "Charts" \in Range(SavedNames)
    /\ \E k \in 1..Len(Saved.sheets) :
          Saved.sheets[k].name = "Statistics" /\ Saved.sheets[k].hdr = "partial"
    /\ \A k \in 1..Len(Saved.sheets) :
          Saved.sheets[k].name \notin {"Statistics", "Charts"} =>
              Saved.sheets[k].hdr = "styled"

\* C10: from the creation of the temporary directory up to the save, the
\* directory exists and holds every chart image rendered so far, the save
\* finds every image it embeds, and the directory is removed only once the
\* try block has been left, by the return after the save or by an exception
C10_TmpdirOutlivesSave ==
    /\ pc \in {"load", "aggregate", "write", "reopen", "style", "charts",
                "wind", "precip", "sheet", "anchor", "save", "finally"} =>
          /\ tmpdir = "exists"
          /\ Range(chart_files) \subseteq tmpfiles
          /\ ImagesReadable(wb)
    /\ tmpdir = "removed" =>
          /\ Ended
          /\ result # None \/ exc # NoExc
    /\ result # None =>
          /\ Saved = Xlsx(wb)
          /\ exc = NoExc

C10_Witness ==
    /\ pc = "finally"
    /\ result = excel_path
    /\ tmpdir = "exists"
    /\ tmpfiles = {WindImage, PrecipImage}
    /\ ImageCount(Saved.sheets) = 2

\* the sheets of a workbook other than the Charts sheet
DataSheets(sheets) == SelectSeq(sheets, LAMBDA ws : ws.name # "Charts")
ChartingOn == embed_charts /\ HAVE_MPL

WindRowsOf(y) ==
    {i \in 1..Len(csv.rows) :
        csv.rows[i]["Year"] = y /\ csv.rows[i]["Wind"] # NaN}

RECURSIVE WindTotal(_)
WindTotal(I) ==
    IF I = {} THEN 0
    ELSE LET i == CHOOSE j \in I : TRUE
         IN csv.rows[i]["Wind"] + WindTotal(I \ {i})

\* the years of the input
InputYears == {csv.rows[i]["Year"] : i \in 1..Len(csv.rows)} \ {NaN}

\* the Wind Summary sheet of the saved workbook has one row per year of
\* the input, ascending, with the mean, maximum and minimum of the wind
\* values of the rows of that year (all missing when the year has none)
WindSummaryRight ==
    /\ Saved.kind = "xlsx"
    /\ Saved.sheets[2].name = "Wind Summary"
    /\ Saved.sheets[2].header = <<"Year", "Mean", "Max", "Min">>
    /\ LET rows == Saved.sheets[2].rows IN
       /\ Len(rows) = Cardinality(InputYears)
       /\ \A k \in 1..Len(rows) : rows[k].Year \in InputYears
       /\ \A k \in 1..(Len(rows) - 1) : rows[k].Year < rows[k + 1].Year
       /\ \A k \in 1..Len(rows) :
             LET I == WindRowsOf(rows[k].Year) IN
             IF I = {}
             THEN /\ rows[k].Mean.den = 0
                  /\ rows[k].Max = NaN
                  /\ rows[k].Min = NaN
             ELSE /\ rows[k].Mean.den > 0
                  /\ rows[k].Mean.num * Cardinality(I) =
                        WindTotal(I) * rows[k].Mean.den
                  /\ \E i \in I : rows[k].Max = csv.rows[i]["Wind"]
                  /\ \A i \in I : rows[k].Max >= csv.rows[i]["Wind"]
                  /\ \E i \in I : rows[k].Min = csv.rows[i]["Wind"]
                  /\ \A i \in I : rows[k].Min <= csv.rows[i]["Wind"]

\* C8 as claimed: a call on any input with a Year and a Wind column ends
\* with the Wind Summary sheet saved, one row per year and so on
C8_WindSummaryForYearAndWind ==
    (Ended /\ {"Year", "Wind"} \subseteq csv.cols) => WindSummaryRight

\* C8 amended: a call on any input with a Year, a Wind and a Temperature
\* column ends with the Wind Summary sheet saved, one row per distinct
\* year, ascending, with the mean, maximum and minimum of the wind values
\* of exactly the rows of that year (without a Temperature column the
\* aggregation raises KeyError and no sheet is written)
C8_WindSummaryForYearWindTemperature ==
    (Ended /\ {"Year", "Wind", "Temperature"} \subseteq csv.cols) =>
        /\ pc = "returned"
        /\ WindSummaryRight

\* the example: {2020, 5}, {2020, 7}, {2021, 10}
C8_Witness ==
    /\ pc = "returned"
    /\ Len(csv.rows) = 3
    /\ \A i \in 1..3 :
          <<csv.rows[i]["Year"], csv.rows[i]["Wind"]>> =
             <<<<2020, 5>>, <<2020, 7>>, <<2021, 10>>>>[i]
    /\ Saved.sheets[2].rows =
          << [Year |-> 2020, Mean |-> [num |-> 6, den |-> 1],
              Max |-> 7, Min |-> 5],
             [Year |-> 2021, Mean |-> [num |-> 10, den |-> 1],
              Max |-> 10, Min |-> 10] >>

====
